---- MODULE Spec2Model ----
(***************************************************************************)
(* Model of the query core (src/src/query.rs): the script-hash status      *)
(* engine over the confirmed store and the mempool index, the transaction  *)
(* resolver with its reorg guard, the merkle prover, the fee estimator and *)
(* the locking discipline around the mempool tracker.                      *)
(***************************************************************************)
EXTENDS Integers, Sequences, FiniteSets, TLC

VARIABLES
    store,      \* the TxRows of the confirmed store: [txid, height, blockhash]
    mempool,    \* the txids the mempool tracker holds
    headers,    \* the header index: headers[h + 1] is the block hash at height h
    minted,     \* how many blocks the node has produced so far
    block_txids,    \* the BlockTxids rows: block hash -> the block's txid list
    fee_histogram,  \* the tracker's histogram: <<fee_rate, vsize>>, rate descending
    pc,         \* per thread: where it is in the operation it runs
    guards,     \* per thread: how many shared guards of the tracker lock it holds
    writer,     \* the thread that holds the tracker lock exclusively, or 0
    last        \* the last query made and what it returned

indexVars == <<store, mempool, headers, minted, block_txids, fee_histogram>>
lockVars == <<pc, guards, writer>>
vars == <<store, mempool, headers, minted, block_txids, fee_histogram,
          pc, guards, writer, last>>

(***************************************************************************)
(* Bounds of the model and program constants.                              *)
(***************************************************************************)
MaxBlocks == 3
NThreads == 2
FUNDING_TXN_LIMIT == 100
\* The height of mempool entries, u32::max_value().  TLC's integers are
\* 32-bit signed, so the largest of them stands for it; all that matters is
\* that it exceeds every block height.
MEMPOOL_HEIGHT == 2147483647

(***************************************************************************)
(* Results: Result<T> (Ok / Err), Option<T> (Some / None) and a panic.     *)
(***************************************************************************)
Ok(v) == [tag |-> "Ok", val |-> v]
Err(m) == [tag |-> "Err", msg |-> m]
Panic(m) == [tag |-> "Panic", msg |-> m]
Some(v) == [tag |-> "Some", val |-> v]
None == [tag |-> "None"]

(***************************************************************************)
(* The transactions of the model.  A txid stands for the double-SHA256 of  *)
(* the transaction, so a txid determines its transaction.                  *)
(*   2: pays P1 (output 0) and P2 (output 1); output 2 is an OP_RETURN     *)
(*   3: spends 2:0, pays P2      (same txid prefix as 2)                   *)
(*   4: spends 2:0, pays P1      (conflicts with 3)                        *)
(*   5: spends 2:1, pays P1 twice (same txid prefix as 4)                  *)
(* Txids from BulkBase on are single-output transactions paying P1, used   *)
(* to fill an address up to the funding limit.                             *)
(***************************************************************************)
CatalogTxids == {2, 3, 4, 5}

TxOut(script, value) == [script_pubkey |-> script, value |-> value]
TxIn(txid, vout) == [previous_output |-> [txid |-> txid, vout |-> vout]]

Tx(txid) ==
    CASE txid = 2 -> [txid |-> 2, input |-> <<>>,
                      output |-> <<TxOut("P1", 10), TxOut("P2", 5),
                                   TxOut("OP_RETURN", 0)>>]
      [] txid = 3 -> [txid |-> 3, input |-> <<TxIn(2, 0)>>,
                      output |-> <<TxOut("P2", 9)>>]
      [] txid = 4 -> [txid |-> 4, input |-> <<TxIn(2, 0)>>,
                      output |-> <<TxOut("P1", 8)>>]
      [] txid = 5 -> [txid |-> 5, input |-> <<TxIn(2, 1)>>,
                      output |-> <<TxOut("P1", 3), TxOut("P1", 1)>>]
      [] OTHER    -> [txid |-> txid, input |-> <<>>,
                      output |-> <<TxOut("P1", 1)>>]

\* index::compute_script_hash: the SHA-256 of the script bytes.
compute_script_hash(script) ==
    CASE script = "P1" -> "H1"
      [] script = "P2" -> "H2"
      [] OTHER -> "H0"

ScriptHashes == {"H1", "H2"}

\* The txids the resolver is asked about.
QueryTxids == {2, 3}

\* HashPrefix: the leading bytes of a txid; two txids that differ only in
\* the dropped tail share a prefix.
Prefix(txid) == txid \div 2

\* The hash of the n-th block the node produced.
BlockHash(n) == 100 + n

(***************************************************************************)
(* Sequence helpers.                                                       *)
(***************************************************************************)
\* Iterator::take(n)
Take(s, n) == IF Len(s) <= n THEN s ELSE SubSeq(s, 1, n)

Min(S) == CHOOSE x \in S : \A y \in S : x <= y

Max(S) == CHOOSE x \in S : \A y \in S : y <= x

\* ReadStore::scan returns rows in key order: the keys of a scan, ascending
\* (the keys up to the middle of their range, then the keys above it).
RECURSIVE SortedSeq(_)
SortedAround(S, mid) ==
    SortedSeq({x \in S : x <= mid}) \o SortedSeq({x \in S : x > mid})

SortedSeq(S) ==
    IF S = {} THEN <<>>
    ELSE IF Cardinality(S) = 1 THEN <<Min(S)>>
    ELSE SortedAround(S, (Min(S) + Max(S)) \div 2)

\* The concatenation of ss[lo..hi] (Vec::extend / push in a loop).
RECURSIVE FlattenRange(_, _, _)
FlattenRange(ss, lo, hi) ==
    IF lo > hi THEN <<>>
    ELSE IF lo = hi THEN ss[lo]
    ELSE FlattenRange(ss, lo, (lo + hi) \div 2)
             \o FlattenRange(ss, (lo + hi) \div 2 + 1, hi)

Flatten(ss) == FlattenRange(ss, 1, Len(ss))

Range(s) == {s[i] : i \in DOMAIN s}

(***************************************************************************)
(* The rows the indexer derives from a transaction, and the two ReadStore  *)
(* views: the confirmed store and the mempool tracker's index.             *)
(***************************************************************************)
TxOutRowsOf(txids) ==
    UNION { { [script_hash |-> compute_script_hash(Tx(t).output[i].script_pubkey),
               txid_prefix |-> Prefix(t)] : i \in DOMAIN Tx(t).output } : t \in txids }

TxInRowsOf(txids) ==
    UNION { { [prev_txid |-> Tx(t).input[i].previous_output.txid,
               prev_vout |-> Tx(t).input[i].previous_output.vout,
               txid_prefix |-> Prefix(t)] : i \in DOMAIN Tx(t).input } : t \in txids }

\* self.app.read_store(): TxRow, RawTxRow, TxOutRow and TxInRow of every
\* indexed transaction.
StoreTxids == {r.txid : r \in store}

read_store ==
    [txrows |-> store, txout |-> TxOutRowsOf(StoreTxids), txin |-> TxInRowsOf(StoreTxids)]

\* tracker.index(): the same row shapes for the pending transactions, at the
\* mempool height and with no block hash.
tracker_index ==
    [txrows |-> {[txid |-> t, height |-> MEMPOOL_HEIGHT, blockhash |-> 0] : t \in mempool},
     txout |-> TxOutRowsOf(mempool), txin |-> TxInRowsOf(mempool)]

\* Tracker::get_txn
get_txn(txid) == IF txid \in mempool THEN Some(Tx(txid)) ELSE None

(***************************************************************************)
(* Row lookups (query.rs, free functions).                                 *)
(***************************************************************************)
\* Both are only ever called on self.app.read_store().
txrow_by_txid(txid) ==
    IF \E r \in store : r.txid = txid
    THEN Some(CHOOSE r \in store : r.txid = txid)
    ELSE None

rawtxrow_by_txid(txid) ==
    IF txid \in StoreTxids THEN Some(Tx(txid)) ELSE None

\* The rows with the given txids, in key order.
RowsInKeyOrder(rows, keys) ==
    [i \in 1..Len(keys) |-> CHOOSE r \in rows : r.txid = keys[i]]

\* Mutant: the scan is not narrowed to the prefix.
txrows_by_prefix_unfiltered(view, txid_prefix) ==
    RowsInKeyOrder(view.txrows, SortedSeq({r.txid : r \in view.txrows}))

txrows_by_prefix(view, txid_prefix) ==
    RowsInKeyOrder(view.txrows,
                   SortedSeq({r.txid : r \in {x \in view.txrows :
                                                 Prefix(x.txid) = txid_prefix}}))

txids_by_script_hash(view, script_hash) ==
    Take(SortedSeq({r.txid_prefix : r \in {x \in view.txout : x.script_hash = script_hash}}),
         FUNDING_TXN_LIMIT + 1)

txids_by_funding_output(view, txn_id, output_index) ==
    SortedSeq({r.txid_prefix : r \in {x \in view.txin :
                    x.prev_txid = txn_id /\ x.prev_vout = output_index}})

\* Query::tx_get: the txstore first, then the in-memory mempool tracker.
tx_get(txid) ==
    IF rawtxrow_by_txid(txid).tag = "Some" THEN rawtxrow_by_txid(txid) ELSE get_txn(txid)

(***************************************************************************)
(* The script-hash status engine.  An operator named ...From takes the     *)
(* value of a "let" of the source as its argument.                         *)
(***************************************************************************)
\* The loop body of load_txns_by_prefix over the rows found: tx_get(..)?
\* for each, then the TxnHeight pushed.
TxnHeightsFrom(rows) ==
    IF \E i \in DOMAIN rows : tx_get(rows[i].txid).tag = "None"
    THEN Err("cannot locate tx")
    ELSE Ok([i \in 1..Len(rows) |->
               [txn |-> tx_get(rows[i].txid).val,
                height |-> rows[i].height,
                blockhash |-> rows[i].blockhash]])

load_txns_by_prefix(view, prefixes) ==
    IF Len(prefixes) > FUNDING_TXN_LIMIT THEN Err("Too many txs")
    ELSE TxnHeightsFrom(Flatten([i \in 1..Len(prefixes) |->
                                    txrows_by_prefix(view, prefixes[i])]))

\* The inputs of candidate t that spend the funding output.
MatchingInputs(t, funding) ==
    SelectSeq([i \in 1..Len(t.txn.input) |->
                  [txn |-> t,
                   txn_id |-> t.txn.txid,
                   height |-> t.height,
                   input_index |-> i - 1,
                   funding_output |-> <<funding.txn_id, funding.output_index>>,
                   value |-> funding.value]],
              LAMBDA s :
                  /\ t.txn.input[s.input_index + 1].previous_output.txid = funding.txn_id
                  /\ t.txn.input[s.input_index + 1].previous_output.vout
                        = funding.output_index)

\* assert!(spending_inputs.len() <= 1), then the one input found, if any.
AtMostOne(spending_inputs) ==
    IF Len(spending_inputs) > 1
    THEN Panic("assertion failed: spending_inputs.len() <= 1")
    ELSE Ok(IF Len(spending_inputs) = 1 THEN Some(spending_inputs[1]) ELSE None)

SpendingInputsFrom(spending_txns, funding) ==
    IF spending_txns.tag # "Ok" THEN spending_txns
    ELSE AtMostOne(Flatten([k \in 1..Len(spending_txns.val) |->
                               MatchingInputs(spending_txns.val[k], funding)]))

find_spending_input(view, funding) ==
    SpendingInputsFrom(
        load_txns_by_prefix(view,
            txids_by_funding_output(view, funding.txn_id, funding.output_index)),
        funding)

\* Mutant: every output of a candidate is taken, whatever its script.
find_funding_outputs_unchecked(t, script_hash) ==
    [i \in 1..Len(t.txn.output) |->
        [txn |-> t,
         txn_id |-> t.txn.txid,
         height |-> t.height,
         output_index |-> i - 1,
         value |-> t.txn.output[i].value]]

find_funding_outputs(t, script_hash) ==
    SelectSeq([i \in 1..Len(t.txn.output) |->
                  [txn |-> t,
                   txn_id |-> t.txn.txid,
                   height |-> t.height,
                   output_index |-> i - 1,
                   value |-> t.txn.output[i].value]],
              LAMBDA f :
                  compute_script_hash(t.txn.output[f.output_index + 1].script_pubkey)
                      = script_hash)

\* The values of the Some entries of a sequence of Options, in order.
ValuesOf(somes) == [i \in 1..Len(somes) |-> somes[i].val]

Somes(options) == ValuesOf(SelectSeq(options, LAMBDA r : r.tag = "Some"))

\* The loop "for funding_output in ...: find_spending_input(...)?" over its
\* answers: the first failure ends it, otherwise the spenders found, in order.
SpendingFrom(found) ==
    IF \E i \in DOMAIN found : found[i].tag # "Ok"
    THEN found[Min({i \in DOMAIN found : found[i].tag # "Ok"})]
    ELSE Ok(Somes([i \in 1..Len(found) |-> found[i].val]))

SpendingOf(view, funding) ==
    SpendingFrom([i \in 1..Len(funding) |-> find_spending_input(view, funding[i])])

FundingFrom(txns, script_hash) ==
    IF txns.tag # "Ok" THEN txns
    ELSE Ok(Flatten([k \in 1..Len(txns.val) |->
                        find_funding_outputs(txns.val[k], script_hash)]))

FundingOf(view, script_hash) ==
    FundingFrom(load_txns_by_prefix(view, txids_by_script_hash(view, script_hash)),
                script_hash)

\* Ok((funding, spending)) once the spending loop has not failed.
FundingAndSpending(funding, spending) ==
    IF spending.tag # "Ok" THEN spending ELSE Ok(<<funding, spending.val>>)

ConfirmedFrom(funding) ==
    IF funding.tag # "Ok" THEN funding
    ELSE FundingAndSpending(funding.val, SpendingOf(read_store, funding.val))

confirmed_status(script_hash) == ConfirmedFrom(FundingOf(read_store, script_hash))

MempoolFrom(funding, confirmed_funding) ==
    IF funding.tag # "Ok" THEN funding
    ELSE FundingAndSpending(funding.val,
                            SpendingOf(tracker_index, funding.val \o confirmed_funding))

mempool_status(script_hash, confirmed_funding) ==
    MempoolFrom(FundingOf(tracker_index, script_hash), confirmed_funding)

StatusOf(confirmed, mempool_) ==
    IF mempool_.tag # "Ok" THEN mempool_
    ELSE Ok([confirmed |-> confirmed, mempool |-> mempool_.val])

StatusFrom(script_hash, confirmed) ==
    IF confirmed.tag # "Ok" THEN confirmed
    ELSE StatusOf(confirmed.val, mempool_status(script_hash, confirmed.val[1]))

status(script_hash) == StatusFrom(script_hash, confirmed_status(script_hash))

(***************************************************************************)
(* Derived queries on a Status.                                            *)
(***************************************************************************)
funding(st) == st.confirmed[1] \o st.mempool[1]

spending(st) == st.confirmed[2] \o st.mempool[2]

OutPointOf(f) == <<f.txn_id, f.output_index>>

\* The HashMap built by inserting every funding output under its outpoint
\* (a later insert replaces an earlier one), less the spent outpoints.
UnspentMap(st) ==
    LET fs == funding(st)
        inserted == [o \in {OutPointOf(fs[i]) : i \in DOMAIN fs} |->
                        fs[CHOOSE i \in DOMAIN fs :
                              /\ OutPointOf(fs[i]) = o
                              /\ \A j \in DOMAIN fs : OutPointOf(fs[j]) = o => j <= i]]
        spent == {spending(st)[i].funding_output : i \in DOMAIN spending(st)}
    IN [o \in DOMAIN inserted \ spent |-> inserted[o]]

\* A stable insertion sort by height.
RECURSIVE InsertByHeight(_, _)
InsertByHeight(sorted, x) ==
    IF sorted = <<>> THEN <<x>>
    ELSE IF x.height < sorted[Len(sorted)].height
         THEN InsertByHeight(SubSeq(sorted, 1, Len(sorted) - 1), x)
                  \o <<sorted[Len(sorted)]>>
         ELSE sorted \o <<x>>

RECURSIVE SortByHeightFrom(_, _, _)
SortByHeightFrom(s, i, acc) ==
    IF i > Len(s) THEN acc
    ELSE SortByHeightFrom(s, i + 1, InsertByHeight(acc, s[i]))

sort_by_height(s) == SortByHeightFrom(s, 1, <<>>)

\* txns.sort_by(|a, b| b.height.cmp(&a.height)): a stable insertion sort,
\* highest first.
RECURSIVE InsertByHeightReversed(_, _)
InsertByHeightReversed(sorted, x) ==
    IF sorted = <<>> THEN <<x>>
    ELSE IF x.height > sorted[Len(sorted)].height
         THEN InsertByHeightReversed(SubSeq(sorted, 1, Len(sorted) - 1), x)
                  \o <<sorted[Len(sorted)]>>
         ELSE sorted \o <<x>>

RECURSIVE SortByHeightReversedFrom(_, _, _)
SortByHeightReversedFrom(s, i, acc) ==
    IF i > Len(s) THEN acc
    ELSE SortByHeightReversedFrom(s, i + 1, InsertByHeightReversed(acc, s[i]))

sort_by_height_reversed(s) == SortByHeightReversedFrom(s, 1, <<>>)

\* The BTreeMap filled by the inserts, in order (a later insert under the
\* same txid replaces the earlier one), handed out in key order.
TxnsMapFrom(inserts, keys) ==
    [k \in 1..Len(keys) |->
        inserts[Max({i \in DOMAIN inserts : inserts[i].txn_id = keys[k]})].txn]

TxnsInKeyOrder(inserts) ==
    TxnsMapFrom(inserts, SortedSeq({inserts[i].txn_id : i \in DOMAIN inserts}))

\* Mutant: the handles are sorted by ascending height.
history_txs_ascending(st) == sort_by_height(TxnsInKeyOrder(funding(st) \o spending(st)))

\* Status::history_txs
history_txs(st) == sort_by_height_reversed(TxnsInKeyOrder(funding(st) \o spending(st)))

\* The orders in which a HashMap may hand out its values.
IterationOrders(m) ==
    LET n == Cardinality(DOMAIN m)
    IN {[i \in 1..n |-> m[keys[i]]] :
            keys \in {k \in [1..n -> DOMAIN m] : \A i, j \in 1..n : i # j => k[i] # k[j]}}

\* Mutant: the values are returned in the map's order, unsorted.
unspent_unsorted(iter) == iter

\* Status::unspent, given the iteration order of outputs_map.
unspent(iter) == sort_by_height(iter)

(***************************************************************************)
(* The header index and the transaction resolver.                          *)
(***************************************************************************)
get_header(height) ==
    IF height < Len(headers)
    THEN Some([hash |-> headers[height + 1], height |-> height])
    ELSE None

Unconfirmed == [confirmed |-> FALSE]
Confirmed(header) ==
    [confirmed |-> TRUE, block_height |-> header.height, block_hash |-> header.hash]

\* Mutant: the header's hash is not compared with the row's blockhash.
get_tx_status_unguarded(tx_hash) ==
    LET txrow == txrow_by_txid(tx_hash)
    IN IF txrow.tag = "None" THEN Ok(Unconfirmed)
       ELSE LET header == get_header(txrow.val.height)
            IN IF header.tag = "None" THEN Err("invalid block height for tx")
               ELSE Ok(Confirmed(header.val))

get_tx_status(tx_hash) ==
    LET txrow == txrow_by_txid(tx_hash)
    IN IF txrow.tag = "None" THEN Ok(Unconfirmed)
       ELSE LET header == get_header(txrow.val.height)
            IN IF header.tag = "None" THEN Err("invalid block height for tx")
               ELSE IF header.val.hash # txrow.val.blockhash
                    THEN Ok(Unconfirmed)
                    ELSE Ok(Confirmed(header.val))

\* The height looked up when the tx is not in the mempool.
LookupHeight(tx_hash, block_height) ==
    IF block_height.tag = "Some" THEN Ok(block_height.val)
    ELSE LET txrow == txrow_by_txid(tx_hash)
         IN IF txrow.tag = "None" THEN Err("not indexed tx")
            ELSE Ok(txrow.val.height)

\* Mutant: the blockhash recorded in the TxRow is returned when there is one.
lookup_confirmed_blockhash_from_row(tx_hash, block_height) ==
    IF get_txn(tx_hash).tag = "Some" THEN Ok(None)
    ELSE LET height == LookupHeight(tx_hash, block_height)
             txrow == txrow_by_txid(tx_hash)
         IN IF height.tag # "Ok" THEN height
            ELSE IF txrow.tag = "Some" THEN Ok(Some(txrow.val.blockhash))
            ELSE LET header == get_header(height.val)
                 IN IF header.tag = "None" THEN Err("missing header at height")
                    ELSE Ok(Some(header.val.hash))

lookup_confirmed_blockhash(tx_hash, block_height) ==
    IF get_txn(tx_hash).tag = "Some" THEN Ok(None)
    ELSE LET height == LookupHeight(tx_hash, block_height)
         IN IF height.tag # "Ok" THEN height
            ELSE LET header == get_header(height.val)
                 IN IF header.tag = "None" THEN Err("missing header at height")
                    ELSE Ok(Some(header.val.hash))

\* Daemon::gettransaction_raw / gettransaction: the node's answer for a txid
\* and the block hash it was asked under.
DaemonTx(tx_hash, blockhash) == Ok([txid |-> tx_hash, blockhash |-> blockhash])

get_transaction(tx_hash) ==
    LET blockhash == lookup_confirmed_blockhash(tx_hash, None)
    IN IF blockhash.tag # "Ok" THEN blockhash
       ELSE DaemonTx(tx_hash, blockhash.val)

_load_txn(tx_hash, block_height) ==
    LET blockhash == lookup_confirmed_blockhash(tx_hash, Some(block_height))
    IN IF blockhash.tag # "Ok" THEN blockhash
       ELSE DaemonTx(tx_hash, blockhash.val)

(***************************************************************************)
(* Spenders by outpoint.                                                   *)
(***************************************************************************)
\* Script::is_provably_unspendable
is_provably_unspendable(script) == script = "OP_RETURN"

\* impl From<OutPoint> for FundingOutput
FundingOutputFrom(txid, output_index) ==
    [txn |-> None, txn_id |-> txid, height |-> 0,
     output_index |-> output_index, value |-> 0]

\* The "if let ... else if let ... else" of find_spending_by_outpoint, given
\* the answer of the store.
SpendingByOutpointFrom(confirmed, funding_output) ==
    IF confirmed.tag # "Ok" THEN confirmed
    ELSE IF confirmed.val.tag = "Some" THEN confirmed
    ELSE find_spending_input(tracker_index, funding_output)

find_spending_by_outpoint(txid, output_index) ==
    SpendingByOutpointFrom(
        find_spending_input(read_store, FundingOutputFrom(txid, output_index)),
        FundingOutputFrom(txid, output_index))

\* Mutant: the spender of every output is looked up, spendable or not.
SpendOfOutput_unchecked(tx, i) ==
    [spend |-> find_spending_by_outpoint(tx.txid, i - 1), lookups |-> <<<<tx.txid, i - 1>>>>]

\* One iteration of the loop of find_spending_for_funding_tx, for output
\* output[i] (index i - 1 in the source): what is pushed, and the outpoints
\* find_spending_by_outpoint was called with.
SpendOfOutput(tx, i) ==
    IF ~is_provably_unspendable(tx.output[i].script_pubkey)
    THEN [spend |-> find_spending_by_outpoint(tx.txid, i - 1),
          lookups |-> <<<<tx.txid, i - 1>>>>]
    ELSE [spend |-> Ok(None), lookups |-> <<>>]

\* The loop over its iterations: the first failing one ends it ("?").
SpendsFrom(found, upto) ==
    [result |-> IF upto <= Len(found) THEN found[upto].spend
                ELSE Ok([i \in 1..Len(found) |-> found[i].spend.val]),
     lookups |-> Flatten([i \in 1..Min({upto, Len(found)}) |-> found[i].lookups])]

FirstFailure(found) ==
    Min({i \in DOMAIN found : found[i].spend.tag # "Ok"} \cup {Len(found) + 1})

SpendsOf(found) == SpendsFrom(found, FirstFailure(found))

\* The answer together with the lookups made on the way.
find_spending_for_funding_tx(tx) ==
    SpendsOf([i \in 1..Len(tx.output) |-> SpendOfOutput(tx, i)])

(***************************************************************************)
(* The environment: the node connects blocks (possibly replacing the top   *)
(* of the chain), the indexer writes their rows, and the mempool tracker   *)
(* is refreshed from the node.                                             *)
(***************************************************************************)
Spends(t) == {<<Tx(t).input[i].previous_output.txid, Tx(t).input[i].previous_output.vout>> :
                 i \in DOMAIN Tx(t).input}

\* The transactions whose row points at a block of the chain below height k.
OnChainBelow(k) ==
    {r.txid : r \in {x \in store : x.height < k /\ x.height < Len(headers)
                                     /\ headers[x.height + 1] = x.blockhash}}

\* T can follow the transactions in base: inputs known, nothing spent twice.
ValidOn(T, base) ==
    /\ T \cap base = {}
    /\ \A t \in T : \A o \in Spends(t) : o[1] \in base \cup T
    /\ \A t \in T : \A u \in (base \cup T) \ {t} : Spends(t) \cap Spends(u) = {}

NoQuery == [op |-> "none"]

Threads == 1..NThreads

\* Sizes are counted in units of 64 vbytes, which divides both the block
\* size the estimator assumes (1_000_000 vbytes) and 2^32, so that u32
\* arithmetic on sizes is arithmetic modulo 2^26 on these units.
VBYTES_PER_BLOCK == 15625
U32 == 2^26

\* The fee rate (sat/vbyte) a pending transaction pays and its vsize; a
\* transaction of the catalog stands for all the transactions of its bin.
FeeRateOf(t) ==
    CASE t = 2 -> 50 [] t = 3 -> 20 [] t = 4 -> 5 [] OTHER -> 10

VsizeOf(t) ==
    CASE t = 2 -> 9375 [] t = 3 -> 12500 [] t = 4 -> 78125 [] OTHER -> VBYTES_PER_BLOCK

\* The sum of f[lo..hi].
RECURSIVE SumRange(_, _, _)
SumRange(f, lo, hi) ==
    IF lo > hi THEN 0
    ELSE IF lo = hi THEN f[lo]
    ELSE SumRange(f, lo, (lo + hi) \div 2) + SumRange(f, (lo + hi) \div 2 + 1, hi)

\* The bin of the transactions in M paying fee_rate.
BinOf(fee_rate, txids) ==
    <<fee_rate, SumRange([j \in 1..Len(txids) |-> VsizeOf(txids[j])], 1, Len(txids))>>

BinsOf(M, rates) ==
    [i \in 1..Len(rates) |->
        BinOf(rates[Len(rates) + 1 - i],
              SortedSeq({t \in M : FeeRateOf(t) = rates[Len(rates) + 1 - i]}))]

\* Tracker::fee_histogram after an update: <<fee_rate, vsize>> per bin,
\* highest fee rate first.
HistogramOf(M) == BinsOf(M, SortedSeq({FeeRateOf(t) : t \in M}))

\* A block with the catalog transactions T is connected at height k: on top
\* of the chain (k = Len(headers)) or replacing the blocks from height k on.
\* Rows of replaced blocks stay in the store.
ConnectBlock(k, T) ==
    /\ last = NoQuery
    /\ minted < MaxBlocks
    /\ k \in 0..Len(headers)
    /\ ValidOn(T, OnChainBelow(k))
    /\ minted' = minted + 1
    /\ headers' = SubSeq(headers, 1, k) \o <<BlockHash(minted + 1)>>
    /\ store' = {r \in store : r.txid \notin T}
                  \cup {[txid |-> t, height |-> k, blockhash |-> BlockHash(minted + 1)] : t \in T}
    /\ last' = NoQuery
    /\ UNCHANGED <<mempool, block_txids, fee_histogram, lockVars>>

\* Query::update_mempool: the tracker takes over the node's mempool M, which
\* is valid on the node's best chain.
update_mempool(M) ==
    /\ ValidOn(M, OnChainBelow(Len(headers)))
    /\ last = NoQuery
    /\ M # mempool
    /\ mempool' = M
    /\ fee_histogram' = HistogramOf(M)
    /\ last' = NoQuery
    /\ UNCHANGED <<store, headers, minted, block_txids, lockVars>>

(***************************************************************************)
(* The queries.                                                            *)
(***************************************************************************)
StatusQuery(script_hash) ==
    /\ last = NoQuery
    /\ last' = [op |-> "status", script_hash |-> script_hash,
                result |-> status(script_hash)]
    /\ UNCHANGED <<indexVars, lockVars>>

UnspentQuery ==
    /\ last.op = "status"
    /\ last.result.tag = "Ok"
    /\ \E iter \in IterationOrders(UnspentMap(last.result.val)) :
          last' = [op |-> "unspent", script_hash |-> last.script_hash,
                   status |-> last.result.val, result |-> unspent(iter)]
    /\ UNCHANGED <<indexVars, lockVars>>

HistoryTxsQuery ==
    /\ last.op = "status"
    /\ last.result.tag = "Ok"
    /\ last' = [op |-> "history_txs", script_hash |-> last.script_hash,
                status |-> last.result.val, result |-> history_txs(last.result.val)]
    /\ UNCHANGED <<indexVars, lockVars>>

GetTxStatusQuery(tx_hash) ==
    /\ last = NoQuery
    /\ last' = [op |-> "get_tx_status", tx_hash |-> tx_hash,
                result |-> get_tx_status(tx_hash)]
    /\ UNCHANGED <<indexVars, lockVars>>

GetTransactionQuery(tx_hash) ==
    /\ last = NoQuery
    /\ last' = [op |-> "get_transaction", tx_hash |-> tx_hash, hint |-> None,
                blockhash |-> lookup_confirmed_blockhash(tx_hash, None),
                result |-> get_transaction(tx_hash)]
    /\ UNCHANGED <<indexVars, lockVars>>

LoadTxnQuery(tx_hash, block_height) ==
    /\ last = NoQuery
    /\ last' = [op |-> "_load_txn", tx_hash |-> tx_hash, hint |-> Some(block_height),
                blockhash |-> lookup_confirmed_blockhash(tx_hash, Some(block_height)),
                result |-> _load_txn(tx_hash, block_height)]
    /\ UNCHANGED <<indexVars, lockVars>>

FindSpendingForFundingTxQuery(txid) ==
    /\ last = NoQuery
    /\ last' = [op |-> "find_spending_for_funding_tx", txid |-> txid,
                result |-> find_spending_for_funding_tx(Tx(txid)).result,
                lookups |-> find_spending_for_funding_tx(Tx(txid)).lookups]
    /\ UNCHANGED <<indexVars, lockVars>>

\* The caller takes the answer.
Return ==
    /\ last # NoQuery
    /\ last' = NoQuery
    /\ UNCHANGED <<indexVars, lockVars>>

\* No thread is inside an operation and the tracker lock is free.
LockIdle ==
    /\ pc = [t \in Threads |-> "idle"]
    /\ guards = [t \in Threads |-> 0]
    /\ writer = 0

Init ==
    /\ store = {}
    /\ mempool = {}
    /\ headers = <<>>
    /\ minted = 0
    /\ block_txids = <<>>
    /\ fee_histogram = <<>>
    /\ LockIdle
    /\ last = NoQuery

Next ==
    \/ \E k \in 0..MaxBlocks, T \in SUBSET CatalogTxids : ConnectBlock(k, T)
    \/ \E M \in SUBSET CatalogTxids : update_mempool(M)
    \/ \E sh \in ScriptHashes : StatusQuery(sh)
    \/ UnspentQuery
    \/ HistoryTxsQuery
    \/ \E t \in QueryTxids : GetTxStatusQuery(t)
    \/ \E t \in QueryTxids : GetTransactionQuery(t)
    \/ \E t \in QueryTxids, h \in 0..MaxBlocks - 1 : LoadTxnQuery(t, h)
    \/ \E t \in QueryTxids : FindSpendingForFundingTxQuery(t)
    \/ Return

Spec == Init /\ [][Next]_vars

(***************************************************************************)
(* Properties of the status engine and the resolver, checked under Spec.   *)
(***************************************************************************)
StatusReturned == last.op = "status" /\ last.result.tag = "Ok"

\* How many elements of sequence s satisfy: funding_output / outpoint = o.
SpendersOf(s, o) == Cardinality({i \in DOMAIN s : s[i].funding_output = o})
OccurrencesOf(s, o) == Cardinality({i \in DOMAIN s : OutPointOf(s[i]) = o})

\* C1, as claimed: in every Status returned, at most one SpendingInput of
\* confirmed.spending and mempool.spending taken together has a given
\* confirmed funding output as its funding_output.
C1_AtMostOneSpenderOverall ==
    StatusReturned =>
        LET st == last.result.val
        IN \A i \in DOMAIN st.confirmed[1] :
              SpendersOf(spending(st), OutPointOf(st.confirmed[1][i])) <= 1

\* C1, amended: confirmed.spending holds at most one SpendingInput per
\* confirmed funding output; mempool.spending holds at most one per entry of
\* the scanned list (mempool funding, then confirmed funding) with that
\* outpoint; and every SpendingInput's transaction really has, at
\* input_index, an input whose previous_output is the funding outpoint, so a
\* candidate that only shares the txid prefix contributes none.
C1_AtMostOneSpenderPerScan ==
    StatusReturned =>
        LET st == last.result.val
            scanned == st.mempool[1] \o st.confirmed[1]
        IN /\ \A i \in DOMAIN st.confirmed[1] :
                 SpendersOf(st.confirmed[2], OutPointOf(st.confirmed[1][i])) <= 1
           /\ \A i \in DOMAIN scanned :
                 SpendersOf(st.mempool[2], OutPointOf(scanned[i]))
                     <= OccurrencesOf(scanned, OutPointOf(scanned[i]))
           /\ \A i \in DOMAIN spending(st) :
                 LET s == spending(st)[i]
                     input == Tx(s.txn_id).input
                 IN /\ s.input_index + 1 \in DOMAIN input
                    /\ <<input[s.input_index + 1].previous_output.txid,
                         input[s.input_index + 1].previous_output.vout>> = s.funding_output
                    /\ \E j \in DOMAIN funding(st) :
                          OutPointOf(funding(st)[j]) = s.funding_output

\* C1, witness: a Status was returned in which a confirmed funding output has
\* its one confirmed spender although another indexed transaction shares the
\* spender's txid prefix and spends nothing of that output.
C1_Witness ==
    /\ StatusReturned
    /\ LET st == last.result.val
       IN \E i \in DOMAIN st.confirmed[2] :
             \E u \in StoreTxids :
                /\ u # st.confirmed[2][i].txn_id
                /\ Prefix(u) = Prefix(st.confirmed[2][i].txn_id)
                /\ st.confirmed[2][i].funding_output \notin Spends(u)

\* C2: every FundingOutput of a returned Status is an output whose script
\* hashes to the queried script hash, of a transaction present in the view
\* it is listed under; so a transaction that pays only other script hashes
\* is in neither funding list, whatever its txid prefix.
C2_FundingPaysScriptHash ==
    StatusReturned =>
        LET st == last.result.val
            Pays(f) == /\ f.output_index + 1 \in DOMAIN Tx(f.txn_id).output
                       /\ compute_script_hash(
                              Tx(f.txn_id).output[f.output_index + 1].script_pubkey)
                            = last.script_hash
        IN /\ \A i \in DOMAIN st.confirmed[1] :
                 Pays(st.confirmed[1][i]) /\ st.confirmed[1][i].txn_id \in StoreTxids
           /\ \A i \in DOMAIN st.mempool[1] :
                 Pays(st.mempool[1][i]) /\ st.mempool[1][i].txn_id \in mempool

\* Transaction u pays nothing to script_hash.
Alien(u, script_hash) ==
    \A i \in DOMAIN Tx(u).output :
        compute_script_hash(Tx(u).output[i].script_pubkey) # script_hash

\* C2, witness: the index resolved the prefix of a funding transaction to a
\* second transaction, which pays only another script hash, and the Status
\* returned lists the first and not the second.
C2_Witness ==
    /\ StatusReturned
    /\ LET st == last.result.val
       IN \E i \in DOMAIN st.confirmed[1] :
             \E u \in StoreTxids :
                /\ u # st.confirmed[1][i].txn_id
                /\ Prefix(u) = Prefix(st.confirmed[1][i].txn_id)
                /\ Alien(u, last.script_hash)
                /\ \A j \in DOMAIN funding(st) : funding(st)[j].txn_id # u

\* C4: get_tx_status answers Unconfirmed when there is no TxRow; with a
\* TxRow and a header at its height, it answers Confirmed (with that height
\* and hash) exactly when the header's hash is the row's blockhash, and
\* Unconfirmed, not an error, when the hashes differ.
C4_ReorgGuard ==
    last.op = "get_tx_status" =>
        LET rows == {r \in store : r.txid = last.tx_hash}
        IN /\ rows = {} => last.result = Ok(Unconfirmed)
           /\ \A r \in rows :
                 r.height < Len(headers) =>
                    /\ last.result.tag = "Ok"
                    /\ last.result.val.confirmed <=> headers[r.height + 1] = r.blockhash
                    /\ last.result.val.confirmed =>
                          /\ last.result.val.block_height = r.height
                          /\ last.result.val.block_hash = r.blockhash

\* C4, witness: after a reorg the TxRow's blockhash is no longer the hash of
\* the header at its height, and get_tx_status answered Unconfirmed.
C4_Witness ==
    /\ last.op = "get_tx_status"
    /\ \E r \in store :
          /\ r.txid = last.tx_hash
          /\ r.height < Len(headers)
          /\ headers[r.height + 1] # r.blockhash
    /\ last.result = Ok(Unconfirmed)

\* C5, as claimed: a confirmed output funding the queried script hash, with
\* no confirmed spender and exactly one mempool transaction spending it, is
\* listed in confirmed.funding, has no SpendingInput in confirmed.spending
\* and exactly one in mempool.spending, whose value is the output's value.
C5_MempoolSpendsConfirmed ==
    StatusReturned =>
        LET st == last.result.val
        IN \A t \in StoreTxids : \A i \in DOMAIN Tx(t).output :
              LET o == <<t, i - 1>>
              IN ( /\ compute_script_hash(Tx(t).output[i].script_pubkey) = last.script_hash
                   /\ \A u \in StoreTxids : o \notin Spends(u)
                   /\ Cardinality({u \in mempool : o \in Spends(u)}) = 1 )
                 => /\ OccurrencesOf(st.confirmed[1], o) = 1
                    /\ SpendersOf(st.confirmed[2], o) = 0
                    /\ SpendersOf(st.mempool[2], o) = 1
                    /\ \A k \in DOMAIN st.mempool[2] :
                          st.mempool[2][k].funding_output = o =>
                              st.mempool[2][k].value = Tx(t).output[i].value

\* C6: unspent() holds exactly one entry for each distinct outpoint of the
\* confirmed and mempool funding that no SpendingInput has as its
\* funding_output, each entry one of the funding outputs, in ascending order
\* of height.
C6_UnspentExact ==
    last.op = "unspent" =>
        LET st == last.status
            u == last.result
            want == {OutPointOf(funding(st)[i]) : i \in DOMAIN funding(st)}
                      \ {spending(st)[i].funding_output : i \in DOMAIN spending(st)}
        IN /\ {OutPointOf(u[i]) : i \in DOMAIN u} = want
           /\ Len(u) = Cardinality(want)
           /\ \A i \in DOMAIN u : u[i] \in Range(funding(st))
           /\ \A i, j \in DOMAIN u : i < j => u[i].height <= u[j].height

\* C6, witness: unspent() returned a confirmed output followed by a mempool
\* output, a spent output having been left out.
C6_Witness ==
    /\ last.op = "unspent"
    /\ Len(last.result) >= 2
    /\ last.result[1].height < MEMPOOL_HEIGHT
    /\ last.result[Len(last.result)].height = MEMPOOL_HEIGHT
    /\ \E i \in DOMAIN funding(last.status) : \E j \in DOMAIN spending(last.status) :
          OutPointOf(funding(last.status)[i]) = spending(last.status)[j].funding_output

\* C10: lookup_confirmed_blockhash yields no blockhash when the txid is in
\* the mempool (whether or not a TxRow exists); otherwise it yields the hash
\* of the header now at the hinted height, or at the TxRow's height when no
\* hint is given, and fails when there is neither hint nor TxRow or no
\* header at that height.  The daemon is asked under exactly that answer.
C10_LookupBlockhash ==
    last.op \in {"get_transaction", "_load_txn"} =>
        LET t == last.tx_hash
            rows == {r \in store : r.txid = t}
            heights == IF last.hint.tag = "Some" THEN {last.hint.val}
                       ELSE {r.height : r \in rows}
        IN /\ IF t \in mempool THEN last.blockhash = Ok(None)
              ELSE IF heights = {} THEN last.blockhash.tag = "Err"
              ELSE \A h \in heights :
                      IF h < Len(headers)
                      THEN last.blockhash = Ok(Some(headers[h + 1]))
                      ELSE last.blockhash.tag = "Err"
           /\ last.result = IF last.blockhash.tag = "Ok"
                            THEN DaemonTx(t, last.blockhash.val)
                            ELSE last.blockhash

\* C10, witness: get_transaction looked up a transaction that is not in the
\* mempool and whose TxRow names a block that a reorg replaced; the answer
\* is the hash of the header now at that height, not the row's blockhash.
C10_Witness ==
    /\ last.op = "get_transaction"
    /\ last.tx_hash \notin mempool
    /\ \E r \in store :
          /\ r.txid = last.tx_hash
          /\ r.height < Len(headers)
          /\ headers[r.height + 1] # r.blockhash
          /\ last.blockhash = Ok(Some(headers[r.height + 1]))

(***************************************************************************)
(* The merkle prover.  A hash is modelled by the pair it was computed      *)
(* from, so two hashes are equal exactly when their inputs are.            *)
(***************************************************************************)
MaxMerkleTxids == 5

\* merklize: the double-SHA256 of left || right.
merklize(left, right) == <<left, right>>

get_block_txids(block_hash) ==
    IF block_hash \in DOMAIN block_txids THEN Some(block_txids[block_hash]) ELSE None

\* txids.iter().position(|txid| txid == tx_hash), 0-based.
Position(txids, tx_hash) ==
    IF \E i \in DOMAIN txids : txids[i] = tx_hash
    THEN Some(Min({i \in DOMAIN txids : txids[i] = tx_hash}) - 1)
    ELSE None

\* if txids.len() % 2 != 0 { txids.push(last) }
PadToEven(txids) ==
    IF Len(txids) % 2 # 0 THEN Append(txids, txids[Len(txids)]) ELSE txids

\* Mutant: the sibling is always taken to be the left node of the pair.
SiblingLeft(index) == index - (index % 2)

Sibling(index) == IF index % 2 = 0 THEN index + 1 ELSE index - 1

\* txids.chunks(2).map(|pair| merklize(pair[0], pair[1])) on an even list.
NextLevel(txids) ==
    [i \in 1..(Len(txids) \div 2) |-> merklize(txids[2 * i - 1], txids[2 * i])]

\* The while loop of get_merkle_proof; index is 0-based as in the source.
RECURSIVE MerkleLoop(_, _, _)
MerkleLoop(txids, index, merkle) ==
    IF Len(txids) > 1
    THEN MerkleLoop(NextLevel(PadToEven(txids)),
                    Sibling(index) \div 2,
                    Append(merkle, PadToEven(txids)[Sibling(index) + 1]))
    ELSE merkle

MerkleProofFrom(txids, pos) ==
    IF pos.tag = "None" THEN Err("missing txid")
    ELSE Ok([merkle |-> MerkleLoop(txids, pos.val, <<>>), pos |-> pos.val])

get_merkle_proof(tx_hash, block_hash) ==
    IF get_block_txids(block_hash).tag = "None" THEN Err("missing txids for block")
    ELSE MerkleProofFrom(get_block_txids(block_hash).val,
                         Position(get_block_txids(block_hash).val, tx_hash))

GetMerkleProofQuery(tx_hash, block_hash) ==
    /\ last = NoQuery
    /\ last' = [op |-> "get_merkle_proof", tx_hash |-> tx_hash, block_hash |-> block_hash,
                result |-> get_merkle_proof(tx_hash, block_hash)]
    /\ UNCHANGED <<indexVars, lockVars>>

\* The txid lists a stored block can have: distinct txids, at least one.
BlockTxidLists ==
    UNION {{s \in [1..n -> 1..MaxMerkleTxids] : \A i, j \in 1..n : i # j => s[i] # s[j]} :
              n \in 1..MaxMerkleTxids}

\* One block is indexed, with any of these txid lists.
InitMerkle ==
    /\ store = {}
    /\ mempool = {}
    /\ headers = <<BlockHash(1)>>
    /\ minted = 1
    /\ block_txids \in {BlockHash(1) :> s : s \in BlockTxidLists}
    /\ fee_histogram = <<>>
    /\ LockIdle
    /\ last = NoQuery

NextMerkle ==
    \/ \E t \in 1..MaxMerkleTxids, b \in {BlockHash(1), BlockHash(2)} :
          GetMerkleProofQuery(t, b)
    \/ Return

SpecMerkle == InitMerkle /\ [][NextMerkle]_vars

\* The merkle root of a list of leaves by the duplicate-last-leaf rule.
RECURSIVE RootOf(_)
RootOf(leaves) ==
    IF Len(leaves) = 1 THEN leaves[1]
    ELSE RootOf([i \in 1..((Len(leaves) + 1) \div 2) |->
                    <<leaves[2 * i - 1],
                      IF 2 * i <= Len(leaves) THEN leaves[2 * i] ELSE leaves[2 * i - 1]>>])

\* Folding h with the path from element k on: the sibling is on the right
\* when the index is even and on the left when odd; the index is halved.
RECURSIVE FoldPath(_, _, _, _)
FoldPath(h, path, index, k) ==
    IF k > Len(path) THEN h
    ELSE FoldPath(IF index % 2 = 0 THEN <<h, path[k]>> ELSE <<path[k], h>>,
                  path, index \div 2, k + 1)

\* The number of tree levels above n leaves.
RECURSIVE LevelsAbove(_)
LevelsAbove(n) == IF n <= 1 THEN 0 ELSE 1 + LevelsAbove((n + 1) \div 2)

\* C7: for a stored block txid list and a txid in it, get_merkle_proof
\* returns (path, pos) with pos the index of the txid; folding the txid with
\* the path (sibling right at an even index, left at an odd one, index
\* halved per level) yields the merkle root of the list under the
\* duplicate-last-leaf rule; the path has one element per tree level.
C7_MerkleRoundTrip ==
    ( /\ last.op = "get_merkle_proof"
      /\ last.block_hash \in DOMAIN block_txids
      /\ \E i \in DOMAIN block_txids[last.block_hash] :
            block_txids[last.block_hash][i] = last.tx_hash )
    => LET txids == block_txids[last.block_hash]
       IN /\ last.result.tag = "Ok"
          /\ txids[last.result.val.pos + 1] = last.tx_hash
          /\ \A i \in 1..last.result.val.pos : txids[i] # last.tx_hash
          /\ FoldPath(last.tx_hash, last.result.val.merkle, last.result.val.pos, 1)
                = RootOf(txids)
          /\ Len(last.result.val.merkle) = LevelsAbove(Len(txids))

\* C7, witness: a proof was returned for the last txid of a list of odd
\* length, three or more, so the last leaf was paired with itself.
C7_Witness ==
    /\ last.op = "get_merkle_proof"
    /\ last.result.tag = "Ok"
    /\ last.block_hash \in DOMAIN block_txids
    /\ Len(block_txids[last.block_hash]) % 2 = 1
    /\ Len(block_txids[last.block_hash]) >= 3
    /\ last.result.val.pos + 1 = Len(block_txids[last.block_hash])
    /\ last.result.val.merkle[1] = last.tx_hash
    /\ Len(last.result.val.merkle) >= 2

(***************************************************************************)
(* The fee estimator.                                                      *)
(***************************************************************************)
\* The loop of estimate_fee from bin i on; the answer is the fee rate the
\* loop ends on (the source scales it by the constant 1e-5).  total_vsize is
\* a u32 and wraps; a build with overflow checks panics instead, but the
\* histograms of the model stay far below 2^32 vbytes.
RECURSIVE FeeLoop(_, _, _, _, _)
FeeLoop(histogram, i, total_vsize, last_fee_rate, blocks_in_vbytes) ==
    IF i > Len(histogram) THEN last_fee_rate
    ELSE IF (total_vsize + histogram[i][2]) % U32 >= blocks_in_vbytes
         THEN histogram[i][1]
         ELSE FeeLoop(histogram, i + 1, (total_vsize + histogram[i][2]) % U32,
                      histogram[i][1], blocks_in_vbytes)

\* (blocks * 1_000_000) as u32
BlocksInVbytes(blocks) == (blocks * VBYTES_PER_BLOCK) % U32

estimate_fee(blocks) == FeeLoop(fee_histogram, 1, 0, 0, BlocksInVbytes(blocks))

\* The smallest block count whose size in vbytes does not fit in a u32.
WrapBlocks == U32 \div VBYTES_PER_BLOCK + 1

FeeBlocks == {0, 1, 2, 6, WrapBlocks - 1, WrapBlocks, WrapBlocks + 1}

\* estimate_fee is called, possibly right after another call of it (kept in
\* prev) on the same histogram.
EstimateFeeQuery(blocks) ==
    /\ last = NoQuery \/ last.op = "estimate_fee"
    /\ last' = [op |-> "estimate_fee", blocks |-> blocks, result |-> estimate_fee(blocks),
                prev |-> IF last = NoQuery THEN None
                         ELSE Some([blocks |-> last.blocks, result |-> last.result])]
    /\ UNCHANGED <<indexVars, lockVars>>

NextFee ==
    \/ \E M \in SUBSET CatalogTxids : update_mempool(M)
    \/ \E k \in FeeBlocks : EstimateFeeQuery(k)
    \/ Return

SpecFee == Init /\ [][NextFee]_vars

\* C8, as claimed: for a fixed histogram and block counts k1 <= k2, the fee
\* rate selected by estimate_fee(k2) is at most the one selected by
\* estimate_fee(k1), the target k * 1_000_000 being held in a u32.
C8_FeeMonotone ==
    (last.op = "estimate_fee" /\ last.prev.tag = "Some") =>
        /\ last.prev.val.blocks <= last.blocks => last.result <= last.prev.val.result
        /\ last.blocks <= last.prev.val.blocks => last.prev.val.result <= last.result

(***************************************************************************)
(* The tracker lock.  Each thread runs one public operation at a time; an  *)
(* operation is cut into steps where it takes or drops a guard of          *)
(* Query.tracker or enters or leaves a call of the daemon.                 *)
(***************************************************************************)
\* RwLock::read succeeds while no thread holds the lock exclusively.
ReadLock(t) ==
    /\ writer = 0
    /\ guards' = [guards EXCEPT ![t] = @ + 1]
    /\ UNCHANGED writer

\* A shared guard is dropped.
ReadUnlock(t) ==
    /\ guards' = [guards EXCEPT ![t] = @ - 1]
    /\ UNCHANGED writer

Goto(t, from, to) ==
    /\ pc[t] = from
    /\ pc' = [pc EXCEPT ![t] = to]

\* status: confirmed_status runs on the store alone.
StatusBegin(t) ==
    /\ Goto(t, "idle", "confirmed_status")
    /\ UNCHANGED <<indexVars, guards, writer, last>>

\* mempool_status: let tracker = self.tracker.read().unwrap()
MempoolStatusLock(t) ==
    /\ Goto(t, "confirmed_status", "mempool_status")
    /\ ReadLock(t)
    /\ UNCHANGED <<indexVars, last>>

\* mempool_status returns and its guard goes out of scope.
MempoolStatusReturn(t) ==
    /\ Goto(t, "mempool_status", "idle")
    /\ ReadUnlock(t)
    /\ UNCHANGED <<indexVars, last>>

\* find_spending_by_outpoint: let tracker = self.tracker.read().unwrap()
FindSpendingLock(t) ==
    /\ Goto(t, "idle", "find_spending_by_outpoint")
    /\ ReadLock(t)
    /\ UNCHANGED <<indexVars, last>>

FindSpendingReturn(t) ==
    /\ Goto(t, "find_spending_by_outpoint", "idle")
    /\ ReadUnlock(t)
    /\ UNCHANGED <<indexVars, last>>

\* load_txns_by_prefix calls tx_get for a transaction that is not in the
\* txstore: self.tracker.read() a second time, under the caller's guard.
NestedTxGetLock(t) ==
    /\ mempool \ StoreTxids # {}
    /\ \/ Goto(t, "mempool_status", "mempool_status.tx_get")
       \/ Goto(t, "find_spending_by_outpoint", "find_spending_by_outpoint.tx_get")
    /\ ReadLock(t)
    /\ UNCHANGED <<indexVars, last>>

NestedTxGetUnlock(t) ==
    /\ \/ Goto(t, "mempool_status.tx_get", "mempool_status")
       \/ Goto(t, "find_spending_by_outpoint.tx_get", "find_spending_by_outpoint")
    /\ ReadUnlock(t)
    /\ UNCHANGED <<indexVars, last>>

\* tx_get / tx_get_raw called directly, for a transaction not in the txstore.
TxGetLock(t) ==
    /\ Goto(t, "idle", "tx_get")
    /\ ReadLock(t)
    /\ UNCHANGED <<indexVars, last>>

TxGetUnlock(t) ==
    /\ Goto(t, "tx_get", "idle")
    /\ ReadUnlock(t)
    /\ UNCHANGED <<indexVars, last>>

\* estimate_fee / get_fee_histogram: the guard lives while the histogram is
\* read.
FeeHistogramLock(t) ==
    /\ Goto(t, "idle", "fee_histogram")
    /\ ReadLock(t)
    /\ UNCHANGED <<indexVars, last>>

FeeHistogramUnlock(t) ==
    /\ Goto(t, "fee_histogram", "idle")
    /\ ReadUnlock(t)
    /\ UNCHANGED <<indexVars, last>>

\* get_transaction / _load_txn: lookup_confirmed_blockhash reads get_txn
\* under a guard that is dropped with the condition of its "if".
LookupLock(t) ==
    /\ Goto(t, "idle", "lookup_confirmed_blockhash")
    /\ ReadLock(t)
    /\ UNCHANGED <<indexVars, last>>

\* lookup_confirmed_blockhash answered: the daemon is called.
LookupUnlockThenDaemon(t) ==
    /\ Goto(t, "lookup_confirmed_blockhash", "daemon.gettransaction")
    /\ ReadUnlock(t)
    /\ UNCHANGED <<indexVars, last>>

\* lookup_confirmed_blockhash failed (no TxRow, no header): "?" returns.
LookupUnlockThenFail(t) ==
    /\ Goto(t, "lookup_confirmed_blockhash", "idle")
    /\ ReadUnlock(t)
    /\ UNCHANGED <<indexVars, last>>

\* broadcast / get_block: the daemon is called, no lock involved.
DaemonOnlyCall(t) ==
    /\ Goto(t, "idle", "daemon.broadcast")
    /\ UNCHANGED <<indexVars, guards, writer, last>>

\* The daemon answers a call made outside Tracker::update.
DaemonReturn(t) ==
    /\ \/ Goto(t, "daemon.gettransaction", "idle")
       \/ Goto(t, "daemon.broadcast", "idle")
    /\ UNCHANGED <<indexVars, guards, writer, last>>

\* update_mempool: self.tracker.write() is requested ...
UpdateMempoolBegin(t) ==
    /\ Goto(t, "idle", "update_mempool")
    /\ UNCHANGED <<indexVars, guards, writer, last>>

\* ... and granted once no guard of any kind is out; Tracker::update(daemon)
\* starts under it.
UpdateMempoolLock(t) ==
    /\ Goto(t, "update_mempool", "tracker.update")
    /\ writer = 0
    /\ \A u \in Threads : guards[u] = 0
    /\ writer' = t
    /\ UNCHANGED <<indexVars, guards, last>>

\* Tracker::update asks the daemon for the node's mempool.
TrackerUpdateDaemon(t) ==
    /\ Goto(t, "tracker.update", "daemon.getmempool")
    /\ UNCHANGED <<indexVars, guards, writer, last>>

\* The daemon answers with the node's mempool M, which the tracker takes over.
TrackerUpdateApply(t, M) ==
    /\ Goto(t, "daemon.getmempool", "tracker.updated")
    /\ ValidOn(M, OnChainBelow(Len(headers)))
    /\ mempool' = M
    /\ fee_histogram' = HistogramOf(M)
    /\ UNCHANGED <<store, headers, minted, block_txids, guards, writer, last>>

\* update_mempool returns: the exclusive guard is dropped.
UpdateMempoolUnlock(t) ==
    /\ Goto(t, "tracker.updated", "idle")
    /\ writer' = 0
    /\ UNCHANGED <<indexVars, guards, last>>

NextLock ==
    \E t \in Threads :
        \/ StatusBegin(t)
        \/ MempoolStatusLock(t)
        \/ MempoolStatusReturn(t)
        \/ FindSpendingLock(t)
        \/ FindSpendingReturn(t)
        \/ NestedTxGetLock(t)
        \/ NestedTxGetUnlock(t)
        \/ TxGetLock(t)
        \/ TxGetUnlock(t)
        \/ FeeHistogramLock(t)
        \/ FeeHistogramUnlock(t)
        \/ LookupLock(t)
        \/ LookupUnlockThenDaemon(t)
        \/ LookupUnlockThenFail(t)
        \/ DaemonOnlyCall(t)
        \/ DaemonReturn(t)
        \/ UpdateMempoolBegin(t)
        \/ UpdateMempoolLock(t)
        \/ TrackerUpdateDaemon(t)
        \/ \E M \in SUBSET CatalogTxids : TrackerUpdateApply(t, M)
        \/ UpdateMempoolUnlock(t)

SpecLock == Init /\ [][NextLock]_vars

\* The positions at which a thread is inside a call of the daemon.
InDaemonCall == {"daemon.gettransaction", "daemon.broadcast", "daemon.getmempool"}

\* C9, as claimed: no thread is inside a daemon call while it holds the
\* tracker lock, in shared or in exclusive mode.
C9_NoDaemonUnderLock ==
    \A t \in Threads : pc[t] \in InDaemonCall => (guards[t] = 0 /\ writer # t)

(***************************************************************************)
(* The funding limit.  The store and the tracker are filled with           *)
(* single-output transactions paying P1, each with a txid prefix of its    *)
(* own, up to about FUNDING_TXN_LIMIT; blocks with the transactions of the *)
(* catalog are then connected.                                             *)
(***************************************************************************)
StoreBulk(n) == {2 * i + 8 : i \in 1..n}

MempoolBulk(m) == {2 * i + 1008 : i \in 1..m}

InitLimit ==
    \E n \in (FUNDING_TXN_LIMIT - 2)..(FUNDING_TXN_LIMIT - 1),
       m \in FUNDING_TXN_LIMIT..(FUNDING_TXN_LIMIT + 1) :
        /\ store = {[txid |-> t, height |-> 0, blockhash |-> BlockHash(1)] :
                       t \in StoreBulk(n)}
        /\ mempool = MempoolBulk(m)
        /\ headers = <<BlockHash(1)>>
        /\ minted = 1
        /\ block_txids = <<>>
        /\ fee_histogram = HistogramOf(MempoolBulk(m))
        /\ LockIdle
        /\ last = NoQuery

NextLimit ==
    \/ \E k \in 1..MaxBlocks, T \in SUBSET CatalogTxids : ConnectBlock(k, T)
    \/ StatusQuery("H1")
    \/ Return

SpecLimit == InitLimit /\ [][NextLimit]_vars

\* How many TxOutRows the scan of a view returns for a script hash.
RowsFor(view, script_hash) ==
    Cardinality({r \in view.txout : r.script_hash = script_hash})

\* Every transaction a TxRow of the view names can be loaded.
AllLoadable(view) == \A r \in view.txrows : tx_get(r.txid).tag = "Some"

\* C3, as claimed: with 101 or more rows for the script hash in the store or
\* in the mempool index, status() fails with the too-many-transactions
\* error; with exactly 100 rows in each view, every referenced transaction
\* being loadable, status() succeeds.
C3_FundingLimit ==
    last.op = "status" =>
        /\ ( \/ RowsFor(read_store, last.script_hash) >= FUNDING_TXN_LIMIT + 1
             \/ RowsFor(tracker_index, last.script_hash) >= FUNDING_TXN_LIMIT + 1 )
           => last.result = Err("Too many txs")
        /\ ( /\ RowsFor(read_store, last.script_hash) = FUNDING_TXN_LIMIT
             /\ RowsFor(tracker_index, last.script_hash) = FUNDING_TXN_LIMIT
             /\ AllLoadable(read_store)
             /\ AllLoadable(tracker_index) )
           => last.result.tag = "Ok"

(***************************************************************************)
(* Spenders of the outputs of a funding transaction, checked under Spec.   *)
(***************************************************************************)
\* The transactions of a set that have an input spending outpoint o.
SpendersIn(txids, o) == {u \in txids : o \in Spends(u)}

\* What a spender u found in a view at the given height looks like.
IsSpender(s, u, height, o) ==
    /\ s.tag = "Some"
    /\ s.val.txn_id = u
    /\ s.val.height = height
    /\ s.val.funding_output = o
    /\ s.val.input_index + 1 \in DOMAIN Tx(u).input
    /\ <<Tx(u).input[s.val.input_index + 1].previous_output.txid,
         Tx(u).input[s.val.input_index + 1].previous_output.vout>> = o

\* C11: when find_spending_for_funding_tx(tx) succeeds, its list has one
\* element per output of tx; the element of a provably unspendable output is
\* None and no lookup was made for that output; the element of any other
\* output is the answer of find_spending_by_outpoint for it: the spender in
\* the confirmed store if there is one, else the spender in the mempool if
\* there is one, else None.
C11_SpendsAlignWithOutputs ==
    (last.op = "find_spending_for_funding_tx" /\ last.result.tag = "Ok") =>
        /\ Len(last.result.val) = Len(Tx(last.txid).output)
        /\ \A i \in DOMAIN Tx(last.txid).output :
              LET o == <<last.txid, i - 1>>
                  s == last.result.val[i]
              IN IF is_provably_unspendable(Tx(last.txid).output[i].script_pubkey)
                 THEN /\ s = None
                      /\ \A k \in DOMAIN last.lookups : last.lookups[k] # o
                 ELSE /\ Ok(s) = find_spending_by_outpoint(last.txid, i - 1)
                      /\ \E k \in DOMAIN last.lookups : last.lookups[k] = o
                      /\ IF SpendersIn(StoreTxids, o) # {}
                         THEN \E r \in store : /\ r.txid \in SpendersIn(StoreTxids, o)
                                               /\ IsSpender(s, r.txid, r.height, o)
                         ELSE IF SpendersIn(mempool, o) # {}
                         THEN \E u \in SpendersIn(mempool, o) :
                                 IsSpender(s, u, MEMPOOL_HEIGHT, o)
                         ELSE s = None

\* C11, witness: for tx 2 the answer names a spender found in the store for
\* one output although the mempool holds a spender of it too, a spender
\* found in the mempool for another, and None for the OP_RETURN output.
C11_Witness ==
    /\ last.op = "find_spending_for_funding_tx"
    /\ last.result.tag = "Ok"
    /\ Len(last.result.val) = 3
    /\ last.result.val[1].tag = "Some"
    /\ last.result.val[1].val.height < MEMPOOL_HEIGHT
    /\ SpendersIn(mempool, <<last.txid, 0>>) # {}
    /\ last.result.val[2].tag = "Some"
    /\ last.result.val[2].val.height = MEMPOOL_HEIGHT
    /\ last.result.val[3] = None
    /\ is_provably_unspendable(Tx(last.txid).output[3].script_pubkey)

(***************************************************************************)
(* The history of a Status, checked under Spec.                            *)
(***************************************************************************)
\* The txids occurring in the funding outputs and spending inputs of st.
TxidsOf(st) ==
    {funding(st)[i].txn_id : i \in DOMAIN funding(st)}
        \cup {spending(st)[i].txn_id : i \in DOMAIN spending(st)}

\* The transaction handles the funding outputs and spending inputs carry.
HandlesOf(st) ==
    {funding(st)[i].txn : i \in DOMAIN funding(st)}
        \cup {spending(st)[i].txn : i \in DOMAIN spending(st)}

\* C12: history_txs() of a returned Status holds exactly one transaction
\* handle for each distinct txid of its funding outputs and spending inputs,
\* confirmed or mempool, in order of non-increasing height, so that every
\* entry at the mempool height precedes every confirmed entry.
C12_HistoryTxs ==
    last.op = "history_txs" =>
        LET h == last.result
        IN /\ {h[i].txn.txid : i \in DOMAIN h} = TxidsOf(last.status)
           /\ Len(h) = Cardinality(TxidsOf(last.status))
           /\ \A i \in DOMAIN h : h[i] \in HandlesOf(last.status)
           /\ \A i, j \in DOMAIN h : i < j => h[i].height >= h[j].height
           /\ \A i, j \in DOMAIN h :
                 (h[i].height = MEMPOOL_HEIGHT /\ h[j].height < MEMPOOL_HEIGHT) => i < j

\* C12, witness: the history starts with a mempool transaction and ends with
\* a confirmed one, for a Status in which some txid occurs more than once.
C12_Witness ==
    /\ last.op = "history_txs"
    /\ Len(last.result) >= 2
    /\ last.result[1].height = MEMPOOL_HEIGHT
    /\ last.result[Len(last.result)].height < MEMPOOL_HEIGHT
    /\ Len(funding(last.status)) + Len(spending(last.status)) > Len(last.result)

(***************************************************************************)
(* The tracker lock as a non-reentrant reader-writer lock that prefers     *)
(* writers.  RwLock::read is cut in two steps, the request and the grant,  *)
(* and is not granted while a thread waits in RwLock::write.  The readers  *)
(* are status, find_spending_by_outpoint and tx_get; the writer is         *)
(* update_mempool.                                                         *)
(***************************************************************************)
\* The positions at which a thread waits inside self.tracker.read().
ReadRequested ==
    {"mempool_status.read", "find_spending_by_outpoint.read", "tx_get.read",
     "mempool_status.tx_get.read", "find_spending_by_outpoint.tx_get.read"}

\* The position a thread waiting at p is at once it has its guard.
Granted(p) ==
    CASE p = "mempool_status.read" -> "mempool_status"
      [] p = "find_spending_by_outpoint.read" -> "find_spending_by_outpoint"
      [] p = "tx_get.read" -> "tx_get"
      [] p = "mempool_status.tx_get.read" -> "mempool_status.tx_get"
      [] p = "find_spending_by_outpoint.tx_get.read" -> "find_spending_by_outpoint.tx_get"

\* A thread is blocked in self.tracker.write().
WriterWaiting == \E u \in Threads : pc[u] = "update_mempool"

\* mempool_status: self.tracker.read() is called ...
MempoolStatusRequest(t) ==
    /\ Goto(t, "confirmed_status", "mempool_status.read")
    /\ UNCHANGED <<indexVars, guards, writer, last>>

\* find_spending_by_outpoint: self.tracker.read() is called.
FindSpendingRequest(t) ==
    /\ Goto(t, "idle", "find_spending_by_outpoint.read")
    /\ UNCHANGED <<indexVars, guards, writer, last>>

\* tx_get called directly, for a transaction not in the txstore.
TxGetRequest(t) ==
    /\ Goto(t, "idle", "tx_get.read")
    /\ UNCHANGED <<indexVars, guards, writer, last>>

\* load_txns_by_prefix calls tx_get for a transaction that is not in the
\* txstore: self.tracker.read() is called under the caller's guard.
NestedTxGetRequest(t) ==
    /\ mempool \ StoreTxids # {}
    /\ \/ Goto(t, "mempool_status", "mempool_status.tx_get.read")
       \/ Goto(t, "find_spending_by_outpoint", "find_spending_by_outpoint.tx_get.read")
    /\ UNCHANGED <<indexVars, guards, writer, last>>

\* ... and returns a guard: no thread holds the lock exclusively and none
\* waits for it.  The guards the caller holds already do not count.
SharedGrant(t) ==
    /\ pc[t] \in ReadRequested
    /\ ~WriterWaiting
    /\ ReadLock(t)
    /\ pc' = [pc EXCEPT ![t] = Granted(@)]
    /\ UNCHANGED <<indexVars, last>>

\* The steps of thread t that take no lock and start no operation.
Proceed(t) ==
    \/ MempoolStatusRequest(t)
    \/ NestedTxGetUnlock(t)
    \/ TxGetUnlock(t)
    \/ TrackerUpdateDaemon(t)
    \/ \E M \in SUBSET CatalogTxids : TrackerUpdateApply(t, M)
    \/ UpdateMempoolUnlock(t)

NextWriterPriority ==
    \E t \in Threads :
        \/ StatusBegin(t)
        \/ FindSpendingRequest(t)
        \/ TxGetRequest(t)
        \/ NestedTxGetRequest(t)
        \/ SharedGrant(t)
        \/ MempoolStatusReturn(t)
        \/ FindSpendingReturn(t)
        \/ UpdateMempoolBegin(t)
        \/ UpdateMempoolLock(t)
        \/ Proceed(t)

\* A thread inside an operation keeps running; a lock that becomes free
\* again and again is granted to a thread that waits for it; the loop over
\* the rows of load_txns_by_prefix ends, so that the operation returns.
\* Nothing makes a thread start an operation.
FairThread(t) ==
    /\ WF_vars(Proceed(t))
    /\ SF_vars(SharedGrant(t))
    /\ SF_vars(UpdateMempoolLock(t))
    /\ SF_vars(MempoolStatusReturn(t))
    /\ SF_vars(FindSpendingReturn(t))

SpecWriterPriority ==
    Init /\ [][NextWriterPriority]_vars /\ \A t \in Threads : FairThread(t)

\* No thread asks for the tracker lock in shared mode while it holds it.
NoSharedRequestWhileHeld ==
    \A t \in Threads : pc[t] \in ReadRequested => guards[t] = 0

\* Every call of a reader or of update_mempool returns.
EveryCallReturns ==
    \A t \in Threads : (pc[t] # "idle") ~> (pc[t] = "idle")

\* C13, as claimed: in every interleaving of status,
\* find_spending_by_outpoint and tx_get with update_mempool, no thread
\* requests the tracker lock in shared mode while it already holds it, and
\* every reader call and every update_mempool call eventually returns.
C13_DeadlockFreedom == []NoSharedRequestWhileHeld /\ EveryCallReturns

====
